---- MODULE Spec2Model ----
(***************************************************************************)
(* Model of the personal-assistant backend (backend_server.py):            *)
(*   - ConnectionManager: the live set of WebSocket connections, connect,  *)
(*     disconnect, broadcast, send_to_specific;                            *)
(*   - websocket_endpoint: one handler task per WebSocket;                 *)
(*   - process_user_message: the pipeline of one user turn.                *)
(* The server is a single asyncio event loop: a handler task runs without  *)
(* interruption from one `await` to the next, so every action below is the *)
(* code a task executes between two consecutive suspension points.         *)
(* Japanese string literals of the source are written in romaji, the       *)
(* module being ASCII; each definition's comment carries the original.     *)
(***************************************************************************)
EXTENDS Integers, Sequences, FiniteSets, TLC

(* ------------------------------ bounds -------------------------------- *)

\* number of WebSocket objects (each is served by one handler task)
MaxWS == 3
\* number of pipeline runs started over the whole behaviour
MaxRuns == 2
\* number of distinct readings of the wall clock
MaxClock == 2
\* number of WebSocket objects that connect in StoreSpec
MaxStoreWS == 2
\* number of documents of a store the search is applied to
MaxDocs == 4
\* number of documents of a store that is backed up
MaxBackupDocs == 2
\* number of trigger messages handed to broadcast
MaxTriggers == 2

WS == 1..MaxWS

\* the websockets that connect in StoreSpec
StoreWS == 1..MaxStoreWS

\* datetime.now().timestamp(): the readings of the wall clock.  The wall
\* clock has a finite resolution and can be set back, so two readings can
\* be equal.
Clock == 1..MaxClock

(* --------------------------- program constants ------------------------ *)

\* n_results=3 of collection.query
n_results == 3

\* "申し訳ありません。エラーが発生しました。"
ApologyText == "moushiwake arimasen. era- ga hassei shimashita."

\* an output of the language model (llm(prompt) returned normally)
ModelText == "model answer"

\* a document of the store (the text, and the metadata's "type"): the
\* "past_purchases" seed, "過去の購入履歴：..."
SeedDocument ==
  [id |-> "past_purchases", document |-> "kako no kounyuu rireki",
   type |-> "purchase_history"]

\* the incoming texts a client can send, after json.loads: an object with
\* "content" ("椅子を買いたい"), a JSON value that is not an object, and a
\* text that is not JSON at all
Messages ==
  { [kind |-> "object", has_content |-> TRUE, content |-> "isu wo kaitai"],
    [kind |-> "not_object", has_content |-> FALSE, content |-> ""],
    [kind |-> "invalid_json", has_content |-> FALSE, content |-> ""] }

\* a JSON object without the "content" key, e.g. {"type": "user"}
MessageWithoutContent ==
  [kind |-> "object", has_content |-> FALSE, content |-> ""]

\* the incoming texts of StoreSpec
StoreMessages == Messages \cup {MessageWithoutContent}

\* the three ways the call of the model ends: it returns, it raises, or the
\* HTTP request to the model server raises a timeout exception
LLMOutcomes == {"ok", "error", "timeout"}

(* ------------------------------- state -------------------------------- *)

VARIABLES
  active_connections,  \* ConnectionManager.active_connections
  open,                \* open[w]: the channel of w is open (client present)
  task,                \* task[w]: position and locals of w's handler task
  collection,          \* the documents of the store, in insertion order
  runs,                \* pipeline runs started so far (bounded by MaxRuns)
  accepted,            \* history: websockets whose accept() completed
  failed_send,         \* history: websockets a send to which has raised
  trace,               \* history: trace[w], the events of w's latest run
  call,                \* the latest call of a function that runs outside the
                       \* WebSocket server: its name, arguments and effects
  files,               \* files[f]: the content of the backup file named f
  scheduler            \* the job scheduler of the server process and the
                       \* trigger messages handed to manager.broadcast

vars == <<active_connections, open, task, collection, runs, accepted,
          failed_send, trace, call, files, scheduler>>

\* what the WebSocket server reads and writes
server_vars == <<active_connections, open, task, collection, runs, accepted,
                 failed_send, trace>>

NoResponse == [type |-> "none", role |-> "none", content |-> ""]

\* the locals of a handler task before it has received anything
IdleTask ==
  [ pc |-> "new",            \* new | receive | broadcast | sleep | respond | closed | raised
    step |-> "none",         \* the pipeline step: analyzing | searching | generating
    si_used |-> 0,           \* set iterator: size of the set when iter() was called
    si_pos |-> 0,            \* set iterator: next table slot to look at
    connection |-> 0,        \* the pending send's target: the loop variable
                             \* of broadcast, the websocket of send_to_specific
    disconnected |-> <<>>,   \* broadcast's list of failed connections
    sent |-> <<>>,           \* history: the targets of the sends started in
                             \* the broadcast call under way, in order
    live_at_call |-> {},     \* history: the live set when that call started
    user_input |-> "",
    context |-> "",
    prompt |-> [context |-> "", question |-> ""],
    response_text |-> "",
    response |-> NoResponse, \* the object process_user_message returned
    exit_cause |-> "none",   \* the exception that ended the handler
    in_set_at_exit |-> TRUE ] \* history: the finally block's disconnect
                             \* found the websocket in the live set

(* ------------------------- ConnectionManager -------------------------- *)

\* disconnect without the discard: the connection stays in the set
disconnect_keep(conns, websocket) == conns

\* set.clear in place of set.discard: every connection is dropped
disconnect_clear(conns, websocket) == {}

\* disconnect(): set.discard
disconnect(conns, websocket) == conns \ {websocket}

\* set.remove in place of set.discard: KeyError for an absent element
disconnect_raises_KeyError(conns, websocket) == websocket \notin conns

\* set.discard raises nothing, whether or not the element is present
disconnect_raises(conns, websocket) == FALSE

RECURSIVE disconnect_all(_, _)
\* the second loop of broadcast: disconnect every collected connection
disconnect_all(conns, failed) ==
  IF failed = <<>> THEN conns
  ELSE disconnect_all(disconnect(conns, Head(failed)), Tail(failed))

\* a cleanup loop raises when one of its disconnect calls does
RECURSIVE disconnect_all_raises(_, _)
disconnect_all_raises(conns, failed) ==
  IF failed = <<>> THEN FALSE
  ELSE \/ disconnect_raises(conns, Head(failed))
       \/ disconnect_all_raises(disconnect(conns, Head(failed)), Tail(failed))

Min(S) == CHOOSE x \in S : \A y \in S : x <= y

\* an iterator that scans the table from its first slot at every step
\* an iterator over the slot of every websocket, in the set or not
setiter_next_every_slot(conns, si_used, si_pos) ==
  IF si_used # Cardinality(conns)
  THEN [kind |-> "RuntimeError", key |-> 0]
  ELSE IF {c \in WS : c >= si_pos} = {}
       THEN [kind |-> "StopIteration", key |-> 0]
       ELSE [kind |-> "yield", key |-> Min({c \in WS : c >= si_pos})]

setiter_next_rescan(conns, si_used, si_pos) ==
  IF si_used # Cardinality(conns)
  THEN [kind |-> "RuntimeError", key |-> 0]
  ELSE IF conns = {}
       THEN [kind |-> "StopIteration", key |-> 0]
       ELSE [kind |-> "yield", key |-> Min(conns)]

\* CPython's set iterator (the `for connection in self.active_connections`
\* of broadcast iterates the live set itself): each step first compares the
\* set's size with the size at iter() and raises RuntimeError("Set changed
\* size during iteration") when they differ, then scans the hash table from
\* si_pos for the next occupied slot.  A websocket w occupies slot w: the
\* table is not resized, fewer than five websockets being ever added.
setiter_next(conns, si_used, si_pos) ==
  IF si_used # Cardinality(conns)
  THEN [kind |-> "RuntimeError", key |-> 0]
  ELSE IF {c \in conns : c >= si_pos} = {}
       THEN [kind |-> "StopIteration", key |-> 0]
       ELSE [kind |-> "yield", key |-> Min({c \in conns : c >= si_pos})]

(* -------------------------- the store ---------------------------------- *)

RECURSIVE Join(_, _)
\* sep.join(texts)
Join(texts, sep) ==
  IF texts = <<>> THEN ""
  ELSE IF Len(texts) = 1 THEN texts[1]
       ELSE texts[1] \o sep \o Join(Tail(texts), sep)

RECURSIVE PickTexts(_, _, _)
\* the texts of the documents whose index is in ids, from index i on
PickTexts(store, ids, i) ==
  IF i > Len(store) THEN <<>>
  ELSE IF i \in ids THEN <<store[i].document>> \o PickTexts(store, ids, i + 1)
       ELSE PickTexts(store, ids, i + 1)

\* The ways collection.query(query_texts=[user_input], n_results=3) can end:
\* it raises, or it returns the texts of min(n_results, count) documents.
\* Which documents are nearest to the query is the embedding's decision.
QueryOutcomes(store) ==
  {[ok |-> FALSE, ids |-> {}]} \cup
  { [ok |-> TRUE, ids |-> I] :
      I \in { J \in SUBSET (1..Len(store)) :
                Cardinality(J) = IF Len(store) < n_results THEN Len(store)
                                 ELSE n_results } }

\* the placeholder search_knowledge_base of main.py returns for no result,
\* "（記録されたデータなし）", used as the except branch's context
query_except_placeholder == "(kiroku sareta de-ta nashi)"

\* the context of the `except:` branch of the query
query_except_context == ""

\* lines 152-159: context from the query's result, or from the except branch
query_context(store, q) ==
  IF q.ok THEN Join(PickTexts(store, q.ids, 1), "\n")
  ELSE query_except_context

\* message.get('content'): None for a missing key, "None" once formatted
message_get_content_None(m) == IF m.has_content THEN m.content ELSE "None"

\* message.get('content', '')
message_get_content(m) == IF m.has_content THEN m.content ELSE ""

\* the except branch of handle_message in main.py, which embeds the
\* exception's text after the apology
llm_except_text_embedding(outcome) == ApologyText \o ": " \o outcome

\* an except branch with a message of its own for a timeout
llm_except_text_timeout(outcome) ==
  IF outcome = "timeout" THEN "timed out" ELSE ApologyText

\* response_text of the `except Exception` branch around llm(prompt)
llm_except_text(outcome) == ApologyText

\* lines 170-186: the prompt is composed and the model called; any exception
\* (a timeout of the request included) is caught
llm_response_text(outcome) ==
  IF outcome = "ok" THEN ModelText ELSE llm_except_text(outcome)

\* the two halves on one line
ConversationText_one_line(user_input, response_text) ==
  "shitsumon: " \o user_input \o " kaitou: " \o response_text

\* f"質問: {user_input}\n回答: {response_text}"
ConversationText(user_input, response_text) ==
  "shitsumon: " \o user_input \o "\n" \o "kaitou: " \o response_text

\* the document process_user_message passes to collection.add
ConversationDocument(user_input, response_text) ==
  [document |-> ConversationText(user_input, response_text),
   type |-> "conversation"]

\* f"conversation_{datetime.now().timestamp()}"
ConversationId(now) == "conversation_" \o ToString(now)

\* what the store keeps of one collection.add(ids=[id], documents=[...],
\* metadatas=[...])
StoreEntry(id, doc) ==
  [id |-> id, document |-> doc.document, type |-> doc.type]

\* collection.upsert in place of collection.add: the entry that has the id
\* is replaced
collection_add_upsert(store, id, doc, ok) ==
  IF ~ok THEN store
  ELSE IF \E i \in DOMAIN store : store[i].id = id
       THEN [i \in DOMAIN store |->
               IF store[i].id = id THEN StoreEntry(id, doc) ELSE store[i]]
       ELSE Append(store, StoreEntry(id, doc))

\* collection.add: the document is appended, or the call raises and the
\* store is as before.  The store does not look at the documents it holds:
\* whether it raises for an id it already holds depends on the library's
\* version (ok is FALSE where it does).
collection_add(store, id, doc, ok) ==
  IF ok THEN Append(store, StoreEntry(id, doc)) ELSE store

\* an except branch that logs and raises again
add_except_reraises == FALSE

\* what the `except Exception` branch around collection.add does next:
\* it logs and falls through to the return statement
add_except_continues == TRUE

\* the object returned at lines 201-206 (the timestamp is left out)
ResponseObject(response_text) ==
  [type |-> "response", role |-> "ai", content |-> response_text]

(* ----------------------- steps of a handler task ----------------------- *)

\* the result of running a task up to its next suspension point
Result(conns, t, store, events) ==
  [conns |-> conns, t |-> t, store |-> store, events |-> events]

\* websocket_endpoint, lines 121-124: an exception raised inside the try
\* block is logged; the finally block calls manager.disconnect(websocket)
HandlerExit(w, conns, t, store, events, cause) ==
  Result(disconnect(conns, w),
         [IdleTask EXCEPT !.pc = IF disconnect_raises(conns, w) THEN "raised"
                                 ELSE "closed",
                          !.step = t.step,
                          !.exit_cause = cause,
                          !.in_set_at_exit = (w \in conns)],
         store, events)

\* process_user_message after a broadcast has returned, up to the next
\* asyncio.sleep: nothing (analyzing), the query (searching), the model
\* call (generating)
AfterBroadcast(w, conns, t, store, events, q, l) ==
  CASE t.step = "analyzing" ->
         Result(conns, [t EXCEPT !.pc = "sleep"], store, events)
    [] t.step = "searching" ->
         Result(conns,
                [t EXCEPT !.pc = "sleep",
                          !.context = query_context(store, q)],
                store,
                Append(events, IF q.ok THEN "query:ok" ELSE "query:error"))
    [] t.step = "generating" ->
         Result(conns,
                [t EXCEPT !.pc = "sleep",
                          !.prompt = [context |-> t.context,
                                      question |-> t.user_input],
                          !.response_text = llm_response_text(l)],
                store, Append(events, "llm:" \o l))

\* broadcast, lines 62-72, from the top of the for loop: the iterator's next
\* step; then either a send is started (the task suspends in send_json), or
\* the loop is over and the collected connections are disconnected, or the
\* iterator raises and the exception leaves broadcast and
\* process_user_message and reaches the handler's except clause
BroadcastLoop(w, conns, t, store, events, q, l) ==
  LET r == setiter_next(conns, t.si_used, t.si_pos) IN
  CASE r.kind = "yield" ->
         Result(conns,
                [t EXCEPT !.pc = "broadcast", !.connection = r.key,
                          !.si_pos = r.key + 1,
                          !.sent = Append(@, r.key)],
                store, events)
    [] r.kind = "RuntimeError" ->
         HandlerExit(w, conns, t, store, events, "RuntimeError")
    [] r.kind = "StopIteration" ->
         IF disconnect_all_raises(conns, t.disconnected)
         THEN HandlerExit(w, conns, t, store, events, "KeyError")
         ELSE AfterBroadcast(w, disconnect_all(conns, t.disconnected),
                             [t EXCEPT !.connection = 0, !.si_used = 0,
                                       !.si_pos = 0, !.disconnected = <<>>,
                                       !.sent = <<>>, !.live_at_call = {}],
                             store, events, q, l)

\* manager.broadcast({'type': 'thinking', 'step': step, ...}) is called:
\* disconnected = [], iter(self.active_connections), first loop step
StartBroadcast(w, conns, t, step, store, events, q, l) ==
  BroadcastLoop(w, conns,
                [t EXCEPT !.step = step, !.si_used = Cardinality(conns),
                          !.si_pos = 0, !.disconnected = <<>>,
                          !.sent = <<>>, !.live_at_call = conns],
                store, Append(events, step), q, l)

\* the handler back in receive_text with the send of the response not awaited
PersistAndReturn_no_wait(w, conns, t, store, events, a, now) ==
  Result(conns, [IdleTask EXCEPT !.pc = "receive"],
         collection_add(store, ConversationId(now),
                        ConversationDocument(t.user_input, t.response_text),
                        a),
         <<>>)

\* lines 190-206 and 119: the turn is added to the store, the response
\* object is returned and send_to_specific(websocket, response) starts its
\* send, whose target is the handler's own websocket
PersistAndReturn(w, conns, t, store, events, a, now) ==
  LET doc == ConversationDocument(t.user_input, t.response_text)
      id == ConversationId(now)
      ev1 == Append(events, IF a THEN "add:ok" ELSE "add:error")
  IN IF a \/ add_except_continues
     THEN Result(conns,
                 [IdleTask EXCEPT !.pc = "respond", !.step = "responded",
                                  !.connection = w,
                                  !.user_input = t.user_input,
                                  !.response = ResponseObject(t.response_text)],
                 collection_add(store, id, doc, a),
                 Append(ev1, "return"))
     ELSE HandlerExit(w, conns, t, collection_add(store, id, doc, a), ev1,
                      "add failed")

(* --------------------- backups (github_manager.py) --------------------- *)

\* the names a backup file is given: the default "backup.json" and another
Filenames == {"backup.json", "other.json"}

\* os.path.join(directory, filename)
path_join(directory, filename) == directory \o "/" \o filename

\* the paths of the model's file system: self.data_dir is repo_path/data
Filepaths == {path_join(d, f) : d \in {".", "./data"}, f \in Filenames}

\* the metadata of a store entry, a dict in insertion order: its keys and
\* their values
entry_metadata(e) ==
  IF "user_id" \in DOMAIN e
  THEN [keys |-> <<"type", "user_id">>, values |-> <<e.type, e.user_id>>]
  ELSE [keys |-> <<"type">>, values |-> <<e.type>>]

\* export_chromadb_to_json lines 44-52, collection.get() having returned
export_chromadb_to_json(store, now) ==
  [timestamp |-> "T" \o ToString(now),
   total_documents |-> Len(store),
   documents |-> [i \in DOMAIN store |-> store[i].document],
   metadatas |-> [i \in DOMAIN store |-> entry_metadata(store[i])],
   ids |-> [i \in DOMAIN store |-> store[i].id]]

\* the values of a JSON text
JsonString(s) ==
  [json |-> "string", text |-> s, keys |-> <<>>, items |-> <<>>]
JsonNumber(n) ==
  [json |-> "number", text |-> ToString(n), keys |-> <<>>, items |-> <<>>]
JsonArray(items) ==
  [json |-> "array", text |-> "", keys |-> <<>>, items |-> items]
JsonObject(keys, items) ==
  [json |-> "object", text |-> "", keys |-> keys, items |-> items]

\* a text that is not JSON (a file cut short by a failed write)
JsonInvalid ==
  [json |-> "invalid", text |-> "", keys |-> <<>>, items |-> <<>>]

\* json.dump of a list of strings
dump_strings(strings) ==
  JsonArray([i \in DOMAIN strings |-> JsonString(strings[i])])

\* json.dump of a dict of strings
dump_dict(d) ==
  JsonObject(d.keys, [i \in DOMAIN d.values |-> JsonString(d.values[i])])

\* json.dump(data, f, indent=2, ensure_ascii=False) of an exported object
json_dump(data) ==
  JsonObject(<<"timestamp", "total_documents", "documents", "metadatas", "ids">>,
             << JsonString(data.timestamp),
                JsonNumber(data.total_documents),
                dump_strings(data.documents),
                JsonArray([i \in DOMAIN data.metadatas |->
                             dump_dict(data.metadatas[i])]),
                dump_strings(data.ids) >>)

\* the member of a JSON object under a key
member(j, key) ==
  j.items[CHOOSE i \in DOMAIN j.keys : j.keys[i] = key]

\* json.load of an array of strings
load_strings(j) == [i \in DOMAIN j.items |-> j.items[i].text]

\* json.load of an object of strings
load_dict(j) ==
  [keys |-> j.keys, values |-> [i \in DOMAIN j.items |-> j.items[i].text]]

\* int(text) for the numbers an export holds
load_number(text) == CHOOSE n \in 0..MaxBackupDocs : ToString(n) = text

\* json.load(f) of the text json.dump wrote
json_load(j) ==
  [timestamp |-> member(j, "timestamp").text,
   total_documents |-> load_number(member(j, "total_documents").text),
   documents |-> load_strings(member(j, "documents")),
   metadatas |-> [i \in DOMAIN member(j, "metadatas").items |->
                    load_dict(member(j, "metadatas").items[i])],
   ids |-> load_strings(member(j, "ids"))]

\* the export of an empty store at no time
NoData == export_chromadb_to_json(<<>>, 0)

\* a path that is not the path of a file; `saved` is history: the data of
\* the latest successful save_backup to the path
NoFile == [exists |-> FALSE, content |-> JsonInvalid, saved |-> NoData]

\* a path in the repository directory in place of the data directory
load_filepath_repo(filename) == path_join(".", filename)

\* load_backup line 199
load_filepath(filename) == path_join("./data", filename)

\* save_backup line 73
save_filepath(filename) == path_join("./data", filename)

\* the ways save_backup's write can end: it succeeds, open() raises, or
\* json.dump raises after open() has truncated the file
SaveOutcomes == {"ok", "open_raises", "dump_raises"}

\* save_backup lines 72-83: the file system after the call
save_backup_files(fs, data, filename, outcome) ==
  CASE outcome = "ok" ->
         [fs EXCEPT ![save_filepath(filename)] =
            [exists |-> TRUE, content |-> json_dump(data), saved |-> data]]
    [] outcome = "open_raises" -> fs
    [] outcome = "dump_raises" ->
         [fs EXCEPT ![save_filepath(filename)] =
            [exists |-> TRUE, content |-> JsonInvalid, saved |-> @.saved]]

\* save_backup's return value
save_backup_result(outcome) == outcome = "ok"

\* load_backup lines 198-213: None for a missing file and for any
\* exception (a text that is not JSON), else the loaded data
load_backup(fs, filename) ==
  LET file == fs[load_filepath(filename)]
  IN IF ~file.exists \/ file.content.json = "invalid"
     THEN [none |-> TRUE, data |-> NoData]
     ELSE [none |-> FALSE, data |-> json_load(file.content)]

\* the documents a store to back up holds: a seed document, a turn of the
\* WebSocket server and a turn of the LINE bot
BackupEntries ==
  { SeedDocument,
    StoreEntry(ConversationId(1),
               ConversationDocument("isu wo kaitai", ModelText)),
    [id |-> ConversationId(2),
     document |-> ConversationText("konnichiwa", ApologyText),
     type |-> "conversation", user_id |-> "U1"] }

BackupStores == UNION { [1..n -> BackupEntries] : n \in 0..MaxBackupDocs }

\* save_backup(export_chromadb_to_json(collection), filename) is called
\* (`runs` counts the calls)
SaveBackup(store, now, filename, outcome) ==
  /\ runs < MaxRuns
  /\ runs' = runs + 1
  /\ files' = save_backup_files(files, export_chromadb_to_json(store, now),
                                filename, outcome)
  /\ call' = [fn |-> "save_backup", filename |-> filename,
              none |-> FALSE, data |-> NoData,
              result |-> save_backup_result(outcome)]
  /\ UNCHANGED <<active_connections, open, task, collection, accepted,
                 failed_send, trace, scheduler>>

\* the ways export_chromadb_to_json can end: it returns the export, or
\* collection.get() raises
ExportOutcomes == {"ok", "get_raises"}

\* the dict {}
EmptyDict == <<>>

\* export_chromadb_to_json lines 43-59: the export, or {} for any exception
export_or_empty(store, now, outcome) ==
  IF outcome = "ok" THEN export_chromadb_to_json(store, now) ELSE EmptyDict

\* `not data` for a dict
dict_is_empty(data) == DOMAIN data = {}

\* the ways commit_and_push can end: all three commands succeed; there is
\* no .git directory; the first subprocess.run raises (no git executable);
\* git add fails; git commit fails (there is nothing to commit) and the push
\* succeeds; git push fails; git push runs into its timeout
GitOutcomes ==
  {"ok", "no_repo", "run_raises", "add_fails", "commit_fails", "push_fails",
   "push_timeout"}

\* commit_and_push lines 95-153: the git commands that have run to their
\* end, in order (a failed commit does not stop the function)
commit_and_push_commands(message, outcome) ==
  CASE outcome \in {"no_repo", "run_raises"} -> <<>>
    [] outcome = "add_fails" -> <<"git add data/">>
    [] outcome = "push_timeout" ->
         <<"git add data/", "git commit -m " \o message>>
    [] OTHER ->
         <<"git add data/", "git commit -m " \o message,
           "git push origin main">>

\* commit_and_push's return value
commit_and_push_result(outcome) == outcome \in {"ok", "commit_fails"}

\* the commit message of auto_backup, line 180
backup_message(data) ==
  "Auto backup: " \o ToString(Len(data.documents)) \o " documents"

\* auto_backup with the push before the save, its failure ignored
auto_backup_push_first(fs, store, now, commit, eo, so, go) ==
  LET data == export_or_empty(store, now, eo)
      git == IF commit /\ ~dict_is_empty(data)
             THEN commit_and_push_commands(backup_message(data), go)
             ELSE <<>>
  IN IF dict_is_empty(data)
     THEN [result |-> FALSE, files |-> fs, git |-> <<>>,
           steps |-> <<"export:error">>]
     ELSE [result |-> save_backup_result(so),
           files |-> save_backup_files(fs, data, "backup.json", so),
           git |-> git,
           steps |-> <<"export:ok", "push:ok",
                       IF save_backup_result(so) THEN "save:ok"
                       ELSE "save:error">>]

\* auto_backup lines 166-186: what it returns, the file system after it,
\* the git commands it has run and the steps it has taken with their ends
auto_backup(fs, store, now, commit, eo, so, go) ==
  LET data == export_or_empty(store, now, eo)
      saved == save_backup_files(fs, data, "backup.json", so)
  IN IF dict_is_empty(data)
     THEN [result |-> FALSE, files |-> fs, git |-> <<>>,
           steps |-> <<"export:error">>]
     ELSE IF ~save_backup_result(so)
     THEN [result |-> FALSE, files |-> saved, git |-> <<>>,
           steps |-> <<"export:ok", "save:error">>]
     ELSE IF commit
     THEN [result |-> commit_and_push_result(go), files |-> saved,
           git |-> commit_and_push_commands(backup_message(data), go),
           steps |-> <<"export:ok", "save:ok",
                       IF commit_and_push_result(go) THEN "push:ok"
                       ELSE "push:error">>]
     ELSE [result |-> TRUE, files |-> saved, git |-> <<>>,
           steps |-> <<"export:ok", "save:ok">>]

\* auto_backup(collection, commit) is called (`runs` counts the calls)
AutoBackup(store, now, commit, eo, so, go) ==
  /\ runs < MaxRuns
  /\ runs' = runs + 1
  /\ LET r == auto_backup(files, store, now, commit, eo, so, go)
     IN /\ files' = r.files
        /\ call' = [fn |-> "auto_backup", commit |-> commit,
                    data |-> export_or_empty(store, now, eo),
                    steps |-> r.steps, git |-> r.git, result |-> r.result]
  /\ UNCHANGED <<active_connections, open, task, collection, accepted,
                 failed_send, trace, scheduler>>

\* load_backup(filename) is called
LoadBackup(filename) ==
  /\ call' = [fn |-> "load_backup", filename |-> filename,
              none |-> load_backup(files, filename).none,
              data |-> load_backup(files, filename).data,
              result |-> ~load_backup(files, filename).none]
  /\ UNCHANGED <<server_vars, files, scheduler>>

(* ---------------------------- the triggers ----------------------------- *)

\* the jobs setup_scheduler would register, by their names
JobNames ==
  {"morning_greeting", "weekly_summary", "long_silence_check",
   "purchase_monitor", "anomaly_detection"}

\* the process has no scheduler (the import at line 14 and the construction
\* at line 97 are comments): nothing runs, no job is registered.  `due` is
\* the job whose time has arrived last, `broadcasts` the trigger messages
\* that have been handed to manager.broadcast (histories).
NoScheduler ==
  [running |-> FALSE, jobs |-> {}, due |-> "none", broadcasts |-> <<>>]

\* setup_scheduler: five add_job calls
setup_scheduler(s) == [s EXCEPT !.jobs = @ \cup JobNames]

\* scheduler.start()
scheduler_start(s) == [s EXCEPT !.running = TRUE]

\* startup_event with lines 317-318 in force
startup_event_starts_scheduler(s) == scheduler_start(setup_scheduler(s))

\* startup_event: it logs; the calls of setup_scheduler() and
\* scheduler.start() at lines 317-318 are comments
startup_event(s) == s

\* the message send_trigger_message builds (timestamp and content left out)
TriggerMessage(trigger_type) ==
  [type |-> "trigger", trigger_type |-> trigger_type]

\* the messages the function of a job hands to manager.broadcast through
\* send_trigger_message: morning_greeting, weekly_summary and
\* long_silence_trigger send one, monitor_purchases and detect_anomalies
\* are `pass`
job_messages(job) ==
  CASE job = "morning_greeting" -> <<TriggerMessage("morning")>>
    [] job = "weekly_summary" -> <<TriggerMessage("weekly")>>
    [] job = "long_silence_check" -> <<TriggerMessage("silence")>>
    [] OTHER -> <<>>

\* the time of a job arrives (8:00, Monday 9:00, the end of an interval):
\* a running scheduler runs the job if it is registered
JobTimeArrives(job) ==
  /\ Len(scheduler.broadcasts) < MaxTriggers
  /\ scheduler' =
       [scheduler EXCEPT
          !.due = job,
          !.broadcasts = IF scheduler.running /\ job \in scheduler.jobs
                         THEN @ \o job_messages(job) ELSE @]
  /\ UNCHANGED <<server_vars, call, files>>

(* ------------------------------ actions -------------------------------- *)

\* no function has been called outside the server
NoCall == [fn |-> "none"]

\* the server after startup, no websocket being connected yet
ServerInit ==
  /\ active_connections = {}
  /\ open = [w \in WS |-> TRUE]
  /\ task = [w \in WS |-> IdleTask]
  /\ runs = 0
  /\ accepted = {}
  /\ failed_send = {}
  /\ trace = [w \in WS |-> <<>>]

Init ==
  /\ ServerInit
  /\ collection = <<SeedDocument>>
  /\ call = NoCall
  /\ files = [f \in Filepaths |-> NoFile]
  /\ scheduler = startup_event(NoScheduler)

Exited(t) == t.pc \in {"closed", "raised"}

\* the state after task w has run up to its next suspension point with
\* result r, a send to each websocket of `failed` having raised on the way;
\* a handler that has ended has its channel closed by the server.
\* failed_send keeps only websockets whose handler is still running.
Apply(w, r, failed) ==
  /\ active_connections' = r.conns
  /\ task' = [task EXCEPT ![w] = r.t]
  /\ collection' = r.store
  /\ trace' = [trace EXCEPT ![w] = r.events]
  /\ open' = IF Exited(r.t) THEN [open EXCEPT ![w] = FALSE] ELSE open
  /\ failed_send' = {c \in failed_send \cup failed :
                       ~Exited(IF c = w THEN r.t ELSE task[c])}
  /\ UNCHANGED <<call, files, scheduler>>

\* the client of w goes away (closes the connection, or the network does)
ClientClose(w) ==
  /\ open[w]
  /\ ~Exited(task[w])
  /\ open' = [open EXCEPT ![w] = FALSE]
  /\ UNCHANGED <<active_connections, task, collection, runs, accepted,
                 failed_send, trace, call, files, scheduler>>

\* websocket_endpoint line 106, ConnectionManager.connect: accept() returns
\* and the websocket is added, or accept() raises; connect is called outside
\* the try block, so the exception leaves the endpoint
Connect(w) ==
  /\ task[w].pc = "new"
  /\ IF open[w]
     THEN /\ active_connections' = active_connections \cup {w}
          /\ accepted' = accepted \cup {w}
          /\ task' = [task EXCEPT ![w].pc = "receive"]
          /\ open' = open
     ELSE /\ task' = [task EXCEPT ![w].pc = "raised",
                                  ![w].exit_cause = "accept"]
          /\ UNCHANGED <<active_connections, accepted, open>>
  /\ UNCHANGED <<collection, runs, failed_send, trace, call, files,
                 scheduler>>

\* line 111: receive_text() raises because the client has gone
ReceiveDisconnect(w) ==
  /\ task[w].pc = "receive"
  /\ ~open[w]
  /\ Apply(w, HandlerExit(w, active_connections, task[w], collection,
                          <<>>, "WebSocketDisconnect"), {})
  /\ UNCHANGED <<runs, accepted>>

\* lines 111-116: a text arrives that json.loads rejects, or whose value has
\* no get method (message.get raises AttributeError at line 133)
ReceiveMalformed(w, m) ==
  /\ task[w].pc = "receive"
  /\ open[w]
  /\ m.kind # "object"
  /\ Apply(w, HandlerExit(w, active_connections, task[w], collection,
                          <<>>,
                          IF m.kind = "invalid_json" THEN "JSONDecodeError"
                          ELSE "AttributeError"), {})
  /\ UNCHANGED <<runs, accepted>>

\* lines 111-142: a JSON object arrives, process_user_message starts and
\* calls broadcast for the analyzing event
ReceiveMessage(w, m, q, l) ==
  /\ task[w].pc = "receive"
  /\ open[w]
  /\ m.kind = "object"
  /\ runs < MaxRuns
  /\ runs' = runs + 1
  /\ Apply(w, StartBroadcast(w, active_connections,
                             [task[w] EXCEPT
                                !.user_input = message_get_content(m)],
                             "analyzing", collection,
                             <<IF m.has_content THEN "received"
                               ELSE "received:no_content">>, q, l),
           {})
  /\ UNCHANGED accepted

\* broadcast lines 63-68: the pending send_json returns or raises; then the
\* loop goes on
SendDone(w, q, l) ==
  /\ task[w].pc = "broadcast"
  /\ LET c == task[w].connection
         ok == open[c]
         t1 == IF ok THEN task[w]
               ELSE [task[w] EXCEPT !.disconnected = Append(@, c)]
     IN Apply(w, BroadcastLoop(w, active_connections, t1, collection,
                               trace[w], q, l),
              IF ok THEN {} ELSE {c})
  /\ UNCHANGED <<runs, accepted>>

\* an asyncio.sleep(0.5) of process_user_message is over: the next broadcast
\* is called (lines 146, 164), or the turn is persisted and returned
SleepDone(w, q, l, a, now) ==
  /\ task[w].pc = "sleep"
  /\ Apply(w,
           CASE task[w].step = "analyzing" ->
                  StartBroadcast(w, active_connections, task[w], "searching",
                                 collection, trace[w], q, l)
             [] task[w].step = "searching" ->
                  StartBroadcast(w, active_connections, task[w], "generating",
                                 collection, trace[w], q, l)
             [] task[w].step = "generating" ->
                  PersistAndReturn(w, active_connections, task[w], collection,
                                   trace[w], a, now),
           {})
  /\ UNCHANGED <<runs, accepted>>

\* send_to_specific lines 76-80: the send of the response returns, or raises
\* and the websocket is disconnected; the handler loops to receive_text.
\* The history of the run is dropped there, but for the failed send.
RespondDone(w) ==
  /\ task[w].pc = "respond"
  /\ LET c == task[w].connection
         ok == open[c]
     IN Apply(w,
              IF ok
              THEN Result(active_connections,
                          [IdleTask EXCEPT !.pc = "receive"], collection, <<>>)
              ELSE IF disconnect_raises(active_connections, c)
                   THEN HandlerExit(w, active_connections, task[w],
                                    collection, trace[w], "KeyError")
                   ELSE Result(disconnect(active_connections, c),
                               [IdleTask EXCEPT !.pc = "receive"],
                               collection, <<"send_to_specific:error">>),
              IF ok THEN {} ELSE {c})
  /\ UNCHANGED <<runs, accepted>>

\* the outcomes the segment of w that starts now can meet: the query runs
\* after the searching broadcast, the model after the generating broadcast,
\* collection.add after the last sleep; an outcome the segment cannot meet
\* is fixed to one value
QueryChoices(w) ==
  IF \/ task[w].pc = "broadcast" /\ task[w].step = "searching"
     \/ task[w].pc = "sleep" /\ task[w].step = "analyzing"
  THEN QueryOutcomes(collection) ELSE {[ok |-> FALSE, ids |-> {}]}

LLMChoices(w) ==
  IF \/ task[w].pc = "broadcast" /\ task[w].step = "generating"
     \/ task[w].pc = "sleep" /\ task[w].step = "searching"
  THEN LLMOutcomes ELSE {"ok"}

AddChoices(w) ==
  IF task[w].pc = "sleep" /\ task[w].step = "generating"
  THEN BOOLEAN ELSE {TRUE}

\* the clock is read in the segment that adds the turn to the store; its
\* reading is one of `readings`
NowChoices(w, readings) ==
  IF task[w].pc = "sleep" /\ task[w].step = "generating"
  THEN readings ELSE {1}

Next ==
  \E w \in WS :
    \/ ClientClose(w)
    \/ Connect(w)
    \/ ReceiveDisconnect(w)
    \/ \E m \in Messages : ReceiveMalformed(w, m)
    \/ \E m \in Messages, q \in QueryChoices(w), l \in LLMChoices(w) :
         ReceiveMessage(w, m, q, l)
    \/ \E q \in QueryChoices(w), l \in LLMChoices(w) : SendDone(w, q, l)
    \/ \E q \in QueryChoices(w), l \in LLMChoices(w), a \in AddChoices(w),
           now \in NowChoices(w, {1}) :
         SleepDone(w, q, l, a, now)
    \/ RespondDone(w)

\* The server with MaxWS websockets.  The clock stands at one reading here:
\* the ids of the store are looked at under StoreSpec only.
Spec == Init /\ [][Next]_vars

\* The same server with MaxStoreWS websockets, whose clients also send
\* objects without "content", and with every reading of the clock.
StoreNext ==
  \E w \in StoreWS :
    \/ ClientClose(w)
    \/ Connect(w)
    \/ ReceiveDisconnect(w)
    \/ \E m \in StoreMessages : ReceiveMalformed(w, m)
    \/ \E m \in StoreMessages, q \in QueryChoices(w), l \in LLMChoices(w) :
         ReceiveMessage(w, m, q, l)
    \/ \E q \in QueryChoices(w), l \in LLMChoices(w) : SendDone(w, q, l)
    \/ \E q \in QueryChoices(w), l \in LLMChoices(w), a \in AddChoices(w),
           now \in NowChoices(w, Clock) :
         SleepDone(w, q, l, a, now)
    \/ RespondDone(w)

StoreSpec == Init /\ [][StoreNext]_vars

(* ----------------------- the LINE bot (main.py) ------------------------ *)

\* "（記録されたデータなし）"
NoDataText == "(kiroku sareta de-ta nashi)"

\* The ways collection.query can end for search_knowledge_base: it raises,
\* its result has no 'documents', or it has the texts of min(n_results,
\* count) documents.
SearchOutcomes(store) ==
  {[kind |-> "raises", ids |-> {}], [kind |-> "no_documents", ids |-> {}]}
    \cup {[kind |-> "documents", ids |-> q.ids] :
            q \in {x \in QueryOutcomes(store) : x.ok}}

\* the documents a query outcome returns, results['documents'][0]
search_documents(store, sq) ==
  IF sq.kind = "documents" THEN PickTexts(store, sq.ids, 1) ELSE <<>>

\* search_knowledge_base of main.py
search_knowledge_base(store, sq) ==
  CASE sq.kind = "documents" -> Join(search_documents(store, sq), "\n")
    [] sq.kind = "no_documents" -> NoDataText
    [] sq.kind = "raises" -> ""

\* the search block of process_user_message (backend_server.py), for the
\* same outcomes of the query
search_context(store, sq) ==
  CASE sq.kind = "documents" ->
         query_context(store, [ok |-> TRUE, ids |-> sq.ids])
    [] sq.kind = "no_documents" -> ""
    [] sq.kind = "raises" -> query_except_context

\* handle_message lines 115-118: generate_response returns the model's
\* text, or the model raises and the except branch builds the text
\* f"申し訳ありません。エラーが発生しました: {str(e)}"
line_response_text(outcome) ==
  IF outcome = "ok" THEN ModelText ELSE ApologyText \o ": " \o outcome

\* the LINE message events: the text, the sender and the event's timestamp
LineEvents ==
  [text : {"isu wo kaitai", "konnichiwa"}, user_id : {"U1", "U2"},
   timestamp : Clock]

\* what the store keeps of the collection.add of handle_message
LineStoreEntry(event, response_text) ==
  [id |-> ConversationId(event.timestamp),
   document |-> ConversationText(event.text, response_text),
   type |-> "conversation", user_id |-> event.user_id]

\* handle_message: the answer is generated, the reply is sent (an exception
\* of reply_message leaves the handler), then the turn is added to the store
HandleMessage(event, sq, l, r, a) ==
  /\ runs < MaxRuns
  /\ runs' = runs + 1
  /\ LET context == search_knowledge_base(collection, sq)
         response_text == line_response_text(l)
     IN /\ collection' =
             IF r /\ a
             THEN Append(collection, LineStoreEntry(event, response_text))
             ELSE collection
        /\ call' = [fn |-> "handle_message", event |-> event,
                    context |-> context, response_text |-> response_text,
                    effects |-> IF ~r THEN <<"reply:error">>
                                ELSE <<"reply:ok",
                                       IF a THEN "add:ok" ELSE "add:error">>]
  /\ UNCHANGED <<active_connections, open, task, accepted, failed_send,
                 trace, files, scheduler>>

LineNext ==
  \E event \in LineEvents, sq \in SearchOutcomes(collection),
     l \in LLMOutcomes, r \in BOOLEAN, a \in BOOLEAN :
    HandleMessage(event, sq, l, r, a)

LineSpec == Init /\ [][LineNext]_vars

(* ------------------------ the search, on its own ------------------------ *)

RECURSIVE JoinWords(_)
\* " ".join(words)
JoinWords(words) ==
  IF words = <<>> THEN ""
  ELSE IF Len(words) = 1 THEN words[1]
       ELSE words[1] \o " " \o JoinWords(Tail(words))

\* the texts of the stores and the queries, as their words: "椅子",
\* "メッシュ 椅子", "健康"
SearchPhrases == {<<"isu">>, <<"mesh", "isu">>, <<"kenkou">>}

\* the i-th document of a store, with the text of phrase p
PhraseDocument(i, p) ==
  [id |-> "doc_" \o ToString(i), document |-> JoinWords(p),
   type |-> "profile"]

\* the stores with at most MaxDocs documents
SearchStores ==
  UNION { { [i \in 1..n |-> PhraseDocument(i, f[i])] :
              f \in [1..n -> SearchPhrases] } : n \in 0..MaxDocs }

\* a store and a query are given
SearchInit ==
  /\ ServerInit
  /\ collection \in SearchStores
  /\ call \in [fn : {"query"}, query : {JoinWords(p) : p \in SearchPhrases}]
  /\ files = [f \in Filepaths |-> NoFile]
  /\ scheduler = startup_event(NoScheduler)

\* the search is applied to the query: by search_knowledge_base and by the
\* search block of process_user_message
Search(sq) ==
  /\ call.fn = "query"
  /\ call' = [fn |-> "search", query |-> call.query, outcome |-> sq.kind,
              documents |-> search_documents(collection, sq),
              line_result |-> search_knowledge_base(collection, sq),
              backend_result |-> search_context(collection, sq)]
  /\ UNCHANGED <<server_vars, files, scheduler>>

SearchNext == \E sq \in SearchOutcomes(collection) : Search(sq)

SearchSpec == SearchInit /\ [][SearchNext]_vars

(* -------------------------- the backups, alone -------------------------- *)

BackupNext ==
  \/ \E store \in BackupStores, now \in Clock, filename \in Filenames,
        outcome \in SaveOutcomes :
       SaveBackup(store, now, filename, outcome)
  \/ \E filename \in Filenames : LoadBackup(filename)

BackupSpec == Init /\ [][BackupNext]_vars

\* auto_backup alone: an outcome of a step that is not taken is fixed
AutoBackupNext ==
  \E store \in BackupStores, now \in Clock, commit \in BOOLEAN,
     eo \in ExportOutcomes :
    \E so \in IF eo = "ok" THEN SaveOutcomes ELSE {"ok"} :
      \E go \in IF eo = "ok" /\ so = "ok" /\ commit THEN GitOutcomes
                ELSE {"ok"} :
        AutoBackup(store, now, commit, eo, so, go)

AutoBackupSpec == Init /\ [][AutoBackupNext]_vars

(* ------------------- the server and the job times ---------------------- *)

\* The server with MaxStoreWS websockets, and the times of the jobs.
TriggerNext ==
  \/ \E w \in StoreWS :
       \/ ClientClose(w)
       \/ Connect(w)
       \/ ReceiveDisconnect(w)
       \/ \E m \in Messages : ReceiveMalformed(w, m)
       \/ \E m \in Messages, q \in QueryChoices(w), l \in LLMChoices(w) :
            ReceiveMessage(w, m, q, l)
       \/ \E q \in QueryChoices(w), l \in LLMChoices(w) : SendDone(w, q, l)
       \/ \E q \in QueryChoices(w), l \in LLMChoices(w), a \in AddChoices(w),
              now \in NowChoices(w, {1}) :
            SleepDone(w, q, l, a, now)
       \/ RespondDone(w)
  \/ \E job \in JobNames : JobTimeArrives(job)

TriggerSpec == Init /\ [][TriggerNext]_vars

(* ------------------------------ properties ----------------------------- *)

Range(f) == {f[i] : i \in DOMAIN f}

Has(events, e) == \E i \in DOMAIN events : events[i] = e

Position(events, e) == Min({i \in DOMAIN events : events[i] = e})

IsProgress(e) == e \in {"analyzing", "searching", "generating"}

\* w is inside process_user_message
InRun(w) == task[w].pc \in {"broadcast", "sleep"}

\* the step of w that ends a broadcast pass of its task
BroadcastEnds(w) == task[w].pc = "broadcast" /\ task'[w].pc # "broadcast"

\* the connections a send to which has raised in the pass of w that ends
\* now, the pending send included
FailedInPass(w) ==
  Range(task[w].disconnected) \cup
    (IF open[task[w].connection] THEN {} ELSE {task[w].connection})

\* C1: a broadcast in which the send to k fails removes k from the live
\* set: when a broadcast pass is over, no connection a send to which has
\* failed in that pass is in the live set.
C1_FailedConnectionDropped ==
  [][\A w \in WS :
       BroadcastEnds(w) => FailedInPass(w) \cap active_connections' = {}]_vars

\* C2: whenever no broadcast pass is under way, the live set is exactly the
\* set of websockets that were accepted, have had no failed send and whose
\* handler has not ended.
C2_LiveSetExact ==
  (\A w \in WS : task[w].pc # "broadcast") =>
    active_connections =
      {w \in accepted : w \notin failed_send /\ ~Exited(task[w])}

\* C3: no broadcast ends with a concurrent-modification fault, whatever
\* other tasks do to the live set while it is suspended at a send.
C3_NoConcurrentModificationFault ==
  \A w \in WS : task[w].exit_cause # "RuntimeError"

\* w's latest pipeline run is over: it has returned, or an exception has
\* ended the handler inside it
RunOver(w) ==
  \/ task[w].pc = "respond"
  \/ Exited(task[w]) /\ task[w].step \in {"analyzing", "searching", "generating"}

\* C4: in every pipeline run the three progress events are broadcast exactly
\* once each, in the order analyzing, searching, generating, the searching
\* event before the store is queried and the generating event before the
\* model is invoked, and the response comes after them.
C4_ProgressEventsOncePerRun ==
  \A w \in WS :
    /\ RunOver(w) =>
         SelectSeq(trace[w], IsProgress) = <<"analyzing", "searching", "generating">>
    /\ \A e \in {"query:ok", "query:error"} :
         Has(trace[w], e) =>
           /\ Has(trace[w], "searching")
           /\ Position(trace[w], "searching") < Position(trace[w], e)
    /\ \A e \in {"llm:ok", "llm:error", "llm:timeout"} :
         Has(trace[w], e) =>
           /\ Has(trace[w], "generating")
           /\ Position(trace[w], "generating") < Position(trace[w], e)
    /\ Has(trace[w], "return") =>
         Position(trace[w], "generating") < Position(trace[w], "return")

\* the model invocation of w's run has raised
LLMFailed(w) == Has(trace[w], "llm:error") \/ Has(trace[w], "llm:timeout")

\* the state of w after a run whose answer is `text` has returned: the
\* response object carries it and, unless collection.add raised, the store
\* holds the turn with it as the answer half
ReturnedWith(w, text) ==
  /\ task[w].response = [type |-> "response", role |-> "ai", content |-> text]
  /\ Has(trace[w], "add:ok") \/ Has(trace[w], "add:error")
  /\ Has(trace[w], "add:ok") =>
       \E now \in Clock :
         StoreEntry(ConversationId(now),
                    ConversationDocument(task[w].user_input, text))
           \in Range(collection)

\* C5: when the model invocation raises, the exception does not leave the
\* run: the handler goes on, response_text is the apology string, and the
\* run returns a response of type 'response' with the apology as content,
\* the turn being added to the store with the apology as its answer half.
C5_ModelFailureYieldsApology ==
  \A w \in WS :
    LLMFailed(w) =>
      /\ ~Exited(task[w])
      /\ task[w].pc = "sleep" => task[w].response_text = ApologyText
      /\ task[w].pc = "respond" => ReturnedWith(w, ApologyText)

C5_Witness ==
  \E w \in WS :
    /\ Has(trace[w], "llm:error")
    /\ task[w].pc = "respond"
    /\ Has(trace[w], "add:ok")

AddFails(w) ==
  /\ task[w].pc = "sleep" /\ task[w].step = "generating"
  /\ task'[w] # task[w]
  /\ Has(trace'[w], "add:error")

\* C7: when collection.add raises, the run still returns the response object
\* with the generated text as content, the store is as it was, and the add
\* is attempted once only.
C7_AddFailureStillResponds ==
  [][\A w \in WS :
       AddFails(w) =>
         /\ task'[w].pc = "respond"
         /\ task'[w].response = ResponseObject(task[w].response_text)
         /\ collection' = collection
         /\ Len(SelectSeq(trace'[w], LAMBDA e : e \in {"add:ok", "add:error"})) = 1]_vars

C7_Witness ==
  \E w \in WS :
    /\ Has(trace[w], "add:error")
    /\ task[w].pc = "respond"
    /\ task[w].response.content = ModelText

\* C8: when the store query raises, the context is the empty text, the run
\* is where a successful query leaves it (at the sleep after the searching
\* step), and the prompt given to the model has the empty context.
C8_QueryFailureEmptyContext ==
  \A w \in WS :
    Has(trace[w], "query:error") =>
      /\ InRun(w) => task[w].context = ""
      /\ trace[w][Len(trace[w])] = "query:error" =>
           task[w].pc = "sleep" /\ task[w].step = "searching"
      /\ InRun(w) /\ (\E l \in LLMOutcomes : Has(trace[w], "llm:" \o l)) =>
           task[w].prompt = [context |-> "", question |-> task[w].user_input]

C8_Witness ==
  \E w \in WS :
    /\ Has(trace[w], "query:error")
    /\ Has(trace[w], "llm:ok")
    /\ task[w].pc = "sleep"
    /\ task[w].prompt.context = ""

C8_WitnessResponded ==
  \E w \in WS : Has(trace[w], "query:error") /\ task[w].pc = "respond"

\* C9: every pipeline run that starts returns a response: no handler ends
\* inside a run.
C9_EveryRunReturns ==
  \A w \in WS :
    Exited(task[w]) =>
      task[w].step \notin {"analyzing", "searching", "generating"}

\* a step of w's handler that calls disconnect(w) and nothing else on the
\* live set, w being absent from it: the handler's exit from receive_text,
\* or a failed send of the response
DisconnectsAbsent(w) ==
  /\ w \notin active_connections
  /\ \/ task[w].pc = "receive" /\ Exited(task'[w])
     \/ task[w].pc = "respond" /\ ~open[w] /\ task'[w].pc # "respond"

\* C10: disconnect of a websocket that is not in the live set raises nothing
\* and leaves the live set as it is, and a second disconnect changes nothing
\* the first has not.
C10_DisconnectIdempotent ==
  [][\A w \in WS :
       /\ DisconnectsAbsent(w) =>
            /\ active_connections' = active_connections
            /\ task'[w].pc # "raised"
       /\ disconnect(disconnect(active_connections, w), w)
            = disconnect(active_connections, w)]_vars

C10_Witness ==
  \E w \in WS :
    /\ task[w].pc = "closed"
    /\ task[w].exit_cause = "WebSocketDisconnect"
    /\ ~task[w].in_set_at_exit

\* the step of w's handler in which the send of send_to_specific ends
SendToSpecificEnds(w) == task[w].pc = "respond" /\ task'[w] # task[w]

\* C11: when the send of send_to_specific fails, exactly that websocket is
\* removed from the live set, every other member staying, and no exception
\* reaches the caller (the handler goes on to receive_text); when the send
\* succeeds, the live set is unchanged.
C11_SendToSpecificFrame ==
  [][\A w \in WS :
       SendToSpecificEnds(w) =>
         /\ task'[w].pc = "receive"
         /\ active_connections' =
              IF open[w] THEN active_connections
              ELSE active_connections \ {w}]_vars

C11_Witness ==
  \E w \in WS :
    /\ trace[w] = <<"send_to_specific:error">>
    /\ task[w].pc = "receive"
    /\ w \notin active_connections
    /\ active_connections # {}

\* C12: the store is append-only across every interleaving of pipeline
\* runs: a step never removes or changes a document (its id, text and
\* metadata stay), and the number of documents never decreases.
C12_StoreAppendOnly ==
  [][/\ Len(collection') >= Len(collection)
     /\ \A i \in DOMAIN collection : collection'[i] = collection[i]]_vars

C12_Witness ==
  /\ Len(collection) = 2
  /\ collection[1] = SeedDocument
  /\ \E w \in StoreWS : InRun(w) /\ task[w].step = "generating"

\* the step of w in which collection.add returns normally
AddSucceeds(w) ==
  /\ task[w].pc = "sleep" /\ task[w].step = "generating"
  /\ task'[w] # task[w]
  /\ Has(trace'[w], "add:ok")

\* C13: a pipeline run whose append does not fail adds exactly one document
\* to the store, the documents already there staying; its metadata type is
\* "conversation" and its text is "質問: " + user input + newline + "回答: "
\* + the content of the response the run returns.
C13_RunAddsOneConversation ==
  [][\A w \in WS :
       AddSucceeds(w) =>
         /\ Len(collection') = Len(collection) + 1
         /\ SubSeq(collection', 1, Len(collection)) = collection
         /\ collection'[Len(collection')].type = "conversation"
         /\ collection'[Len(collection')].document =
              "shitsumon: " \o task[w].user_input \o "\n" \o "kaitou: "
                \o task'[w].response.content
         /\ task'[w].pc = "respond"
         /\ Len(SelectSeq(trace'[w],
                          LAMBDA e : e \in {"add:ok", "add:error"})) = 1]_vars

C13_Witness ==
  \E w \in StoreWS :
    /\ task[w].pc = "respond"
    /\ Has(trace[w], "add:ok")
    /\ Has(trace[w], "llm:ok")
    /\ collection[Len(collection)].document =
         "shitsumon: isu wo kaitai\nkaitou: model answer"

\* C14: every appended conversation document has an id that is unique in
\* the store: no two documents of the store have the same id, whatever the
\* clock readings at which the runs reach the append.
C14_IdsUnique ==
  \A i, j \in DOMAIN collection :
    i # j => collection[i].id # collection[j].id

\* the latest message of w was an object without "content"
NoContentReceived(w) == Has(trace[w], "received:no_content")

\* C15: a message object without "content" is not rejected: the run starts
\* (the analyzing broadcast is made), the user input is the empty text in
\* every step, no exception about the message ends the handler, and a run
\* that returns has made all its steps, has attempted the append of a turn
\* whose question half is empty, and returns a normal response.
C15_MissingContentIsEmptyText ==
  \A w \in WS :
    NoContentReceived(w) =>
      /\ Has(trace[w], "analyzing")
      /\ task[w].exit_cause \notin {"AttributeError", "JSONDecodeError", "KeyError"}
      /\ InRun(w) \/ task[w].pc = "respond" => task[w].user_input = ""
      /\ InRun(w) /\ (\E l \in LLMOutcomes : Has(trace[w], "llm:" \o l)) =>
           task[w].prompt.question = ""
      /\ task[w].pc = "respond" =>
           /\ SelectSeq(trace[w], IsProgress)
                = <<"analyzing", "searching", "generating">>
           /\ Has(trace[w], "query:ok") \/ Has(trace[w], "query:error")
           /\ \E l \in LLMOutcomes : Has(trace[w], "llm:" \o l)
           /\ Has(trace[w], "add:ok") \/ Has(trace[w], "add:error")
           /\ task[w].response.type = "response"
           /\ task[w].response.role = "ai"
           /\ task[w].response.content \in {ModelText, ApologyText}
           /\ Has(trace[w], "add:ok") =>
                \E i \in DOMAIN collection :
                  /\ collection[i].type = "conversation"
                  /\ collection[i].document =
                       "shitsumon: " \o "\n" \o "kaitou: "
                         \o task[w].response.content

C15_Witness ==
  \E w \in StoreWS :
    /\ NoContentReceived(w)
    /\ task[w].pc = "respond"
    /\ Has(trace[w], "add:ok")
    /\ collection[Len(collection)].document = "shitsumon: \nkaitou: model answer"

\* text.split(): the whitespace-delimited tokens of a text
Tokens(text) ==
  UNION {Range(p) : p \in {x \in SearchPhrases : JoinWords(x) = text}}

\* the number of tokens of the query that the document text contains (no
\* word of SearchPhrases is a part of another word)
MatchCount(text, query) == Cardinality(Tokens(query) \cap Tokens(text))

\* C16: when the query returns documents, search returns only documents
\* that contain at least one whitespace-delimited token of the query, at
\* most n_results (3) of them, joined by newlines.  (The order of the
\* returned documents is the store's decision and is not stated here.)
C16_SearchReturnsMatchingDocuments ==
  call.fn = "search" /\ call.outcome = "documents" =>
    /\ \A i \in DOMAIN call.documents :
         MatchCount(call.documents[i], call.query) > 0
    /\ Len(call.documents) <= n_results
    /\ call.line_result = Join(call.documents, "\n")
    /\ call.backend_result = Join(call.documents, "\n")

\* C17: search on an empty store, on a store none of whose documents
\* matches the query, or on a store whose query raises returns the empty
\* text.
C17_SearchEmptyWhenNothingFound ==
  /\ call.fn = "search"
  /\ \/ collection = <<>>
     \/ \A i \in DOMAIN collection :
          MatchCount(collection[i].document, call.query) = 0
     \/ call.outcome = "raises"
  => call.line_result = "" /\ call.backend_result = ""

\* C18: load_backup(f) after a successful save_backup(data, f) returns the
\* documents and the metadatas of the data saved last to f, and load_backup
\* of a file that was never saved returns None (and raises nothing).
C18_BackupRoundTrip ==
  call.fn = "load_backup" =>
    LET file == files["./data/" \o call.filename]
    IN /\ file.exists /\ file.content.json # "invalid" =>
            /\ ~call.none
            /\ call.data.documents = file.saved.documents
            /\ call.data.metadatas = file.saved.metadatas
       /\ ~file.exists => call.none

C18_Witness ==
  /\ call.fn = "load_backup"
  /\ ~call.none
  /\ Len(call.data.documents) = 2
  /\ call.data.metadatas[2].keys = <<"type", "user_id">>
  /\ ~files["./data/other.json"].exists

C20_PendingSendBlocksNobody ==
  \A w \in WS :
    task[w].pc = "broadcast" =>
      (task[w].live_at_call \cap active_connections) \ {task[w].connection}
        \subseteq Range(task[w].sent)

\* no websocket but w has joined or left the live set since the broadcast
\* call of w that is under way started
OthersAsAtCall(w) ==
  task[w].pc = "broadcast" =>
    task[w].live_at_call \ {w} = active_connections \ {w}

\* C21: a run whose originating connection has been closed is not
\* interrupted: no step of it ends the handler (the other connections
\* being as they were when its broadcast started), its last step attempts
\* the append of the turn after the model has been invoked, and the final
\* send fails without an exception and leaves the connection outside the
\* live set.
C21_CloseDoesNotInterruptRun ==
  [][\A w \in WS :
       ~open[w] /\ task'[w] # task[w] =>
         /\ InRun(w) /\ OthersAsAtCall(w) => ~Exited(task'[w])
         /\ InRun(w) /\ task'[w].pc = "respond" =>
              /\ \E l \in LLMOutcomes : Has(trace'[w], "llm:" \o l)
              /\ Has(trace'[w], "add:ok") \/ Has(trace'[w], "add:error")
         /\ task[w].pc = "respond" =>
              /\ task'[w].pc = "receive"
              /\ w \notin active_connections']_vars

\* the step of w in which process_user_message returns its response
Returns(w) == InRun(w) /\ task'[w].pc = "respond"

\* C22: the response a run returns has type 'response', role 'ai' and the
\* generated text as content, and it is sent to the connection whose
\* message started the run and to no other; a progress event of the run is
\* sent to every live connection (every connection that is live from the
\* start of its broadcast call to the end).
C22_ResponseToOriginatorOnly ==
  [][\A w \in WS :
       /\ Returns(w) =>
            /\ task'[w].response =
                 [type |-> "response", role |-> "ai",
                  content |-> task[w].response_text]
            /\ task'[w].connection = w
       /\ BroadcastEnds(w) =>
            task[w].live_at_call \cap active_connections'
              \subseteq Range(task[w].sent)]_vars

\* effects of the latest handle_message call that are store appends / replies
IsAdd(e) == e \in {"add:ok", "add:error"}

IsReply(e) == e \in {"reply:ok", "reply:error"}

\* C23: in every turn the append of the turn to the store is attempted
\* before the response is delivered to the client, in the WebSocket pipeline
\* (the run that is about to send its response has an add event behind it)
\* and in the LINE handler (an add comes before every reply of the call)
C23_PersistedPrecedesResponded ==
  /\ \A w \in WS :
       task[w].pc = "respond" => \E i \in DOMAIN trace[w] : IsAdd(trace[w][i])
  /\ call.fn = "handle_message" =>
       \A j \in DOMAIN call.effects :
         IsReply(call.effects[j]) =>
           \E i \in 1..(j - 1) : IsAdd(call.effects[i])

\* the step of w starts a send of its broadcast call
SendStarts(w) == task'[w].pc = "broadcast" /\ task'[w] # task[w]

\* the step of w ends a send of its broadcast call that reached its target
SendDelivered(w) ==
  task[w].pc = "broadcast" /\ task'[w] # task[w] /\ open[task[w].connection]

\* C24: there is no queueing or replay.  A send of a broadcast call is
\* started only to a connection that is in the live set at that moment and
\* is delivered only to a connection that is in the live set; and when the
\* call returns, every connection a send of it was started to had been
\* accepted by then, so a connection accepted later gets nothing of it.
C24_NoQueueNoReplay ==
  [][\A w \in WS :
       /\ SendStarts(w) =>
            task'[w].connection \in active_connections \cap active_connections'
       /\ SendDelivered(w) => task[w].connection \in active_connections
       /\ BroadcastEnds(w) => Range(task[w].sent) \subseteq accepted]_vars

\* a broadcast call has started sends while an accepted connection has been
\* out of the live set since the call began: nothing of it went there
C24_Witness ==
  \E w \in WS, c \in WS :
    /\ task[w].pc = "broadcast"
    /\ task[w].sent # <<>>
    /\ c \in accepted \ (active_connections \cup task[w].live_at_call)
    /\ c \notin Range(task[w].sent)

\* how many events of the set es the sequence has
Count(events, es) == Cardinality({i \in DOMAIN events : events[i] \in es})

\* C25: no step of a run is retried: in every run that is over, however it
\* ended, the store was queried exactly once, the model was invoked at most
\* once and the append was attempted exactly once
C25_NoStepRetried ==
  \A w \in WS :
    RunOver(w) =>
      /\ Count(trace[w], {"query:ok", "query:error"}) = 1
      /\ Count(trace[w], {"llm:" \o l : l \in LLMOutcomes}) <= 1
      /\ Count(trace[w], {"add:ok", "add:error"}) = 1

StartsRun(w) == runs' = runs + 1 /\ task'[w] # task[w]

\* C27: the messages of a connection are processed one at a time: a handler
\* takes a message only while it waits in receive_text, with no run of its
\* own in progress and no response of its own pending, and after a run it
\* comes back to receive_text only from the send of the response, returned
\* or raised
C27_OneMessageAtATime ==
  [][\A w \in WS :
       /\ StartsRun(w) =>
            /\ task[w].pc = "receive"
            /\ task[w].response.type = "none"
            /\ \A v \in WS \ {w} : task'[v] = task[v]
       /\ task'[w].pc = "receive" /\ task[w].pc # "receive" =>
            task[w].pc \in {"new", "respond"}]_vars

\* the only connection ever accepted is sending the response to its second
\* message
C27_Witness ==
  \E w \in WS :
    /\ accepted = {w}
    /\ runs = 2
    /\ task[w].pc = "respond"

\* the handler of w waits for the next message or runs a pipeline
WaitsOrRuns(t) == t.pc \in {"receive", "broadcast", "sleep"}

MalformedEnds(w) ==
  /\ task[w].pc = "receive"
  /\ task'[w].exit_cause \in {"JSONDecodeError", "AttributeError"}

\* C29: a text that is not valid JSON, or is JSON but not an object, ends
\* the handler of its connection: no progress event is broadcast for it (no
\* send is started, no run is counted), nothing is appended to the store, no
\* response is sent, the connection leaves the live set and every other
\* connection stays in it
C29_MalformedEndsHandler ==
  [][\A w \in WS :
       MalformedEnds(w) =>
         /\ Exited(task'[w])
         /\ trace'[w] = <<>>
         /\ runs' = runs
         /\ task'[w].sent = <<>> /\ task'[w].connection = 0
         /\ collection' = collection
         /\ task'[w].response.type = "none"
         /\ w \notin active_connections'
         /\ active_connections' = active_connections \ {w}
         /\ \A v \in WS \ {w} : task'[v] = task[v]]_vars

\* one handler has ended on invalid JSON and one on a JSON value that is
\* not an object, and a third connection is still in the live set
C29_Witness ==
  \E w \in WS, v \in WS, u \in WS :
    /\ task[w].pc = "closed" /\ task[w].exit_cause = "JSONDecodeError"
    /\ task[v].pc = "closed" /\ task[v].exit_cause = "AttributeError"
    /\ u \in active_connections
    /\ w \in accepted /\ v \in accepted

\* the step is a call of auto_backup
AutoBackupCalled == runs' = runs + 1 /\ call'.fn = "auto_backup"

\* the path of the file auto_backup writes
BackupPath == save_filepath("backup.json")

\* C30: auto_backup runs export, save, push in that order and stops at the
\* first failure; it returns True only if the export is not empty, the save
\* has succeeded and (commit is False or commit_and_push has succeeded); the
\* file is not written when the export fails, no git command is run when
\* the save fails, and when only the push fails False is returned although
\* the file has been written
C30_AutoBackupStopsAtFirstFailure ==
  [][AutoBackupCalled =>
       LET steps == call'.steps
           pushed == call'.commit /\ Len(steps) = 3
       IN /\ steps \in {<<"export:error">>, <<"export:ok", "save:error">>,
                        <<"export:ok", "save:ok">>,
                        <<"export:ok", "save:ok", "push:ok">>,
                        <<"export:ok", "save:ok", "push:error">>}
          /\ steps = <<"export:ok", "save:ok">> => ~call'.commit
          /\ Len(steps) = 3 => call'.commit
          /\ call'.result <=>
               /\ ~dict_is_empty(call'.data)
               /\ Has(steps, "save:ok")
               /\ ~call'.commit \/ Has(steps, "push:ok")
          /\ dict_is_empty(call'.data) <=> steps = <<"export:error">>
          /\ Has(steps, "export:error") => files' = files /\ call'.git = <<>>
          /\ Has(steps, "save:error") => call'.git = <<>>
          /\ ~pushed => call'.git = <<>>
          /\ Has(steps, "push:error") =>
               /\ ~call'.result
               /\ files'[BackupPath].exists
               /\ files'[BackupPath].content = json_dump(call'.data)]_vars

\* a backup whose push has failed after git add and git commit, the file
\* of an earlier backup having been replaced
C30_Witness ==
  /\ call.fn = "auto_backup"
  /\ call.steps = <<"export:ok", "save:ok", "push:error">>
  /\ Len(call.git) = 3
  /\ runs = 2
  /\ files[BackupPath].content = json_dump(call.data)

====
